---- MODULE Spec2Model ----
(***************************************************************************)
(* Model of the command/reply correlation core of python-controllino:      *)
(* controllino.Base with its two daemon threads (_MessageThread,           *)
(* _CommandThread), the job id pool (_id.IdManager, _id.Id), Future and    *)
(* the Command family.                                                     *)
(*                                                                         *)
(* Three threads of control are modelled: the caller ("caller"), the       *)
(* receive loop ("rx", _MessageThread) and the send loop ("tx",            *)
(* _CommandThread).  The serial device is the environment: the peer        *)
(* appends encoded frames to the device's input buffer.                    *)
(*                                                                         *)
(* Python values are modelled as records, so that values of different      *)
(* shapes can be compared: None is [tag |-> "None"], a reply is a record   *)
(* whose domain is the set of keys it carries.                             *)
(***************************************************************************)
EXTENDS Integers, Sequences, FiniteSets, TLC

(***************************************************************************)
(* Bounds of the model.                                                    *)
(***************************************************************************)
\* size of the id pool (IdManager(size); the code's default is 2**8 - 1)
PoolSize == 1
\* number of commands the caller creates (submit and open together)
MaxCmds == 2
\* number of frames the peer device sends
MaxFrames == 2
\* number of frames the peer device sends in the streaming scenario
MaxLogFrames == 3
\* number of LOG_SIGNAL commands the caller creates in the streaming scenario
MaxLogCmds == 1
\* number of kill() calls
MaxKills == 1
\* number of commands the caller creates in the shutdown scenario
MaxStopCmds == 1
\* number of frames the peer device sends in the shutdown scenario
MaxStopFrames == 1
\* number of commands the caller creates in the id recycling scenario
MaxFifoCmds == 3

(***************************************************************************)
(* Program constants (controllino.py:20-26).                               *)
(***************************************************************************)
RX == "RX_"
READY == "READY"
ERROR == "ERROR"
ERR == "ERR_"
DELIM == <<[b |-> "CR"], [b |-> "LF"]>>

None == [tag |-> "None"]

(***************************************************************************)
(* Command kinds: the request name each Cmd* class serializes              *)
(* (the _serialize methods).  GET_INPUT extracts a field of the reply,     *)
(* LOAD_PIN_MODES uses the default _update, LOG_SIGNAL streams and READY   *)
(* is the readiness probe.  The remaining classes (SET_OUTPUT,             *)
(* SET_PIN_MODE, SAVE_PIN_MODES, RESET_PIN_MODES, TRIGGER_PULSE,           *)
(* END_LOG_SIGNAL use the default update and _update, like LOAD_PIN_MODES; *)
(* GET_PIN_MODE is GET_INPUT with the field mode).                         *)
(***************************************************************************)
SubmitKinds == {"GET_INPUT", "LOAD_PIN_MODES", "LOG_SIGNAL"}

(***************************************************************************)
(* Future (controllino.py:352-432).                                        *)
(***************************************************************************)
\* sets counts the calls of set_result and set_error on the Future; the
\* code keeps no such counter, it is history recorded for the properties
Future == [result |-> None, error |-> None, done |-> FALSE, sets |-> 0]

set_result(fut, result) ==
    [fut EXCEPT !.result = result, !.done = TRUE, !.sets = @ + 1]

set_error(fut, error) ==
    [fut EXCEPT !.error = error, !.done = TRUE, !.sets = @ + 1]

\* Future.done(): wait(-1) on the event
done(fut) == fut.done

ControllinoError(msg, reply) ==
    [tag |-> "ControllinoError", msg |-> msg, reply |-> reply]

KeyError(key) == [tag |-> "KeyError", key |-> key]

JSONDecodeError == [tag |-> "JSONDecodeError"]

RuntimeError == [tag |-> "RuntimeError"]

\* what pyserial raises when the port is used after close()
SerialException == [tag |-> "SerialException"]

Value(v) == [tag |-> "value", v |-> v]

TimeSeries(time, values) == [tag |-> "TimeSeries", time |-> time, values |-> values]

(***************************************************************************)
(* Commands.  A command object is a record; the caller creates it and the  *)
(* receive loop updates it in place, so the objects live in the sequence   *)
(* cmds and are referred to by their index.                                *)
(***************************************************************************)
NewCommand(kind, job) ==
    [kind |-> kind,
     job |-> job,
     future |-> IF kind = "LOG_SIGNAL" THEN <<Future, Future>> ELSE <<Future>>,
     time |-> <<>>,
     values |-> <<>>]

\* Command.serialize(): the command data with the job id under "job"
serialize(cmd) == [command |-> cmd.kind, job |-> cmd.job]

\* _encode(): json.dumps(data) followed by CR LF
encode(data) == <<[b |-> "json", obj |-> data]>> \o DELIM

Has(reply, key) == key \in DOMAIN reply

\* an _error() that knows only the error name of the command itself
IsErrorOwnName(cmd, reply) ==
    reply.command = ERR \o serialize(cmd).command

\* Command._error(future, reply): TRUE iff the reply is an error reply for
\* this command
IsError(cmd, reply) ==
    \/ reply.command = ERR \o serialize(cmd).command
    \/ reply.command = "ERR_COMMAND_INVALID"

\* The outcome of an update is [cmd, ret, raised]: the command afterwards,
\* the value returned ("True", "False" or "None") and the exception raised
\* (None if the call returned).
Outcome(cmd, ret, raised) == [cmd |-> cmd, ret |-> ret, raised |-> raised]

\* Cmd*._update(reply)
UpdateResult(cmd, reply) ==
    CASE cmd.kind = "GET_INPUT" ->
           IF Has(reply, "level")
           THEN Outcome([cmd EXCEPT !.future[1] = set_result(@, Value(reply.level))],
                        "True", None)
           ELSE Outcome(cmd, "None", KeyError("level"))
      [] OTHER ->
           Outcome([cmd EXCEPT !.future[1] = set_result(@, None)], "True", None)

\* an update that takes every reply that is not an error for the success
\* reply
CommandUpdateAnyName(cmd, reply) ==
    IF IsError(cmd, reply)
    THEN Outcome([cmd EXCEPT !.future[1] =
                      set_error(@, ControllinoError("controllino error", reply))],
                 "True", None)
    ELSE UpdateResult(cmd, reply)

\* Command.update(reply)
CommandUpdate(cmd, reply) ==
    IF IsError(cmd, reply)
    THEN Outcome([cmd EXCEPT !.future[1] =
                      set_error(@, ControllinoError("controllino error", reply))],
                 "True", None)
    ELSE IF reply.command = RX \o serialize(cmd).command
         THEN UpdateResult(cmd, reply)
         ELSE Outcome(cmd, "None", None)

\* a stream update that reports an error of the stream on the request Future
LogSignalStreamFirstFuture(cmd, reply) ==
    IF IsError(cmd, reply)
    THEN Outcome([cmd EXCEPT !.future[1] =
                      set_error(@, ControllinoError("controllino error", reply))],
                 "True", None)
    ELSE LET time == Append(cmd.time, reply.time)
             values == Append(cmd.values, reply.value)
             c1 == [cmd EXCEPT !.time = time, !.values = values]
         IN  IF reply.done
             THEN Outcome([c1 EXCEPT !.future[2] =
                               set_result(@, TimeSeries(time, values))],
                          "True", None)
             ELSE Outcome(c1, "False", None)

\* CmdLogSignal.update(reply): the part after the first-pass block
LogSignalStream(cmd, reply) ==
    IF IsError(cmd, reply)
    THEN Outcome([cmd EXCEPT !.future[2] =
                      set_error(@, ControllinoError("controllino error", reply))],
                 "True", None)
    ELSE IF ~Has(reply, "time")
    THEN Outcome(cmd, "None", KeyError("time"))
    ELSE IF ~Has(reply, "value")
    THEN Outcome([cmd EXCEPT !.time = Append(@, reply.time)],
                 "None", KeyError("value"))
    ELSE IF ~Has(reply, "done")
    THEN Outcome([cmd EXCEPT !.time = Append(@, reply.time),
                             !.values = Append(@, reply.value)],
                 "None", KeyError("done"))
    ELSE LET time == Append(cmd.time, reply.time)
             values == Append(cmd.values, reply.value)
             c1 == [cmd EXCEPT !.time = time, !.values = values]
         IN  IF reply.done
             THEN Outcome([c1 EXCEPT !.future[2] =
                               set_result(@, TimeSeries(time, values))],
                          "True", None)
             ELSE Outcome(c1, "False", None)

\* an update that runs the first-pass block on every reply
LogSignalUpdateEveryPass(cmd, reply) ==
    IF IsError(cmd, reply)
    THEN Outcome([cmd EXCEPT !.future[1] =
                      set_error(@, ControllinoError("controllino error", reply))],
                 "True", None)
    ELSE LogSignalStream([cmd EXCEPT !.future[1] = set_result(@, None)], reply)

\* an update that accepts on the first reply without recording its sample
LogSignalUpdateSkipFirst(cmd, reply) ==
    IF ~done(cmd.future[1])
    THEN IF IsError(cmd, reply)
         THEN Outcome([cmd EXCEPT !.future[1] =
                           set_error(@, ControllinoError("controllino error", reply))],
                      "True", None)
         ELSE Outcome([cmd EXCEPT !.future[1] = set_result(@, None)], "False", None)
    ELSE LogSignalStream(cmd, reply)

\* an update that fails both Futures when the request is declined
LogSignalUpdateBothFail(cmd, reply) ==
    IF ~done(cmd.future[1])
    THEN IF IsError(cmd, reply)
         THEN Outcome([cmd EXCEPT
                           !.future[1] =
                               set_error(@, ControllinoError("controllino error", reply)),
                           !.future[2] =
                               set_error(@, ControllinoError("controllino error", reply))],
                      "True", None)
         ELSE LogSignalStream([cmd EXCEPT !.future[1] = set_result(@, None)], reply)
    ELSE LogSignalStream(cmd, reply)

\* CmdLogSignal.update(reply)
LogSignalUpdate(cmd, reply) ==
    IF ~done(cmd.future[1])
    THEN IF IsError(cmd, reply)
         THEN Outcome([cmd EXCEPT !.future[1] =
                           set_error(@, ControllinoError("controllino error", reply))],
                      "True", None)
         ELSE LogSignalStream([cmd EXCEPT !.future[1] = set_result(@, None)], reply)
    ELSE LogSignalStream(cmd, reply)

\* cmd.update(reply), dispatched on the class of cmd
update(cmd, reply) ==
    IF cmd.kind = "LOG_SIGNAL"
    THEN LogSignalUpdate(cmd, reply)
    ELSE CommandUpdate(cmd, reply)

(***************************************************************************)
(* Framing (_MessageThread._run_impl, controllino.py:256-261).  A byte     *)
(* stream is a sequence of symbols: [b |-> "json", obj |-> d] stands for   *)
(* the text json.dumps(d), [b |-> "CR"] and [b |-> "LF"] for the two       *)
(* delimiter bytes and [b |-> "_"] for a byte that is not part of a JSON   *)
(* text.                                                                   *)
(***************************************************************************)
\* bytes.split(DELIM): the segments between the occurrences of CR LF, left
\* to right; the last element is what follows the last delimiter
RECURSIVE SplitFrom(_, _, _, _)
SplitFrom(s, i, chunk, chunks) ==
    IF i > Len(s)
    THEN Append(chunks, chunk)
    ELSE IF i < Len(s) /\ s[i].b = "CR" /\ s[i + 1].b = "LF"
         THEN SplitFrom(s, i + 2, <<>>, Append(chunks, chunk))
         ELSE SplitFrom(s, i + 1, Append(chunk, s[i]), chunks)

split(s) == SplitFrom(s, 1, <<>>, <<>>)

\* JSON whitespace around a value is skipped by json.loads
IsSpace(sym) == sym.b \in {"CR", "LF"}

Strip(chunk) == SelectSeq(chunk, LAMBDA sym : ~IsSpace(sym))

\* json.loads(chunk + DELIM) succeeds iff the chunk is one JSON text with
\* nothing but whitespace around it
Loads(chunk) == Len(Strip(chunk)) = 1 /\ Strip(chunk)[1].b = "json"

loads(chunk) == Strip(chunk)[1].obj

\* str.startswith over the names that occur on the wire
NameTails == {"", "_PANIC"}

startswith(name, prefix) == \E tail \in NameTails : name = prefix \o tail

(***************************************************************************)
(* State.                                                                  *)
(***************************************************************************)
VARIABLES
    queue,          \* IdManager._queue: the free ids, oldest first
    cmds,           \* the Command objects created so far
    pending,        \* Base._pending: indices into cmds
    pending_lock,   \* Base._pending_lock: "free" or the thread holding it
    cmd_queue,      \* Base._cmd_queue: indices into cmds
    error_queue,    \* Base._error_queue
    stop_event,     \* Base._stop_event
    serial_lock,    \* Base._serial_lock: "free" or the thread holding it
    ser_in,         \* the bytes the device has sent and the host has not read
    written,        \* the serial.write calls, in order: the command and the bytes
    closed,         \* number of serial.close calls
    buffer,         \* _MessageThread._buffer
    byte_count,     \* _run_impl's local byte_count
    replies,        \* _run_impl's replies that are still to be received
    index,          \* _receive's local index (0: none)
    tx_cmd,         \* _CommandThread.run's local cmd (0: none)
    cur,            \* the command of the caller's call in progress (0: none)
    raised,         \* what the caller's last call raised (None: it returned)
    pc,             \* where each thread is
    wire,           \* the frames the device has sent so far, in order
    kills           \* number of kill() calls made

vars == <<queue, cmds, pending, pending_lock, cmd_queue, error_queue, stop_event,
          serial_lock, ser_in, written, closed, buffer, byte_count, replies, index,
          tx_cmd, cur, raised, pc, wire, kills>>

Threads == {"caller", "rx", "tx"}

\* Base.__init__ with IdManager.__init__(size): both daemons are started
Start(size) ==
    /\ queue = [i \in 1..size |-> i - 1]
    /\ cmds = <<>>
    /\ pending = <<>>
    /\ pending_lock = "free"
    /\ cmd_queue = <<>>
    /\ error_queue = <<>>
    /\ stop_event = FALSE
    /\ serial_lock = "free"
    /\ ser_in = <<>>
    /\ written = <<>>
    /\ closed = 0
    /\ buffer = <<>>
    /\ byte_count = 0
    /\ replies = <<>>
    /\ index = 0
    /\ tx_cmd = 0
    /\ cur = 0
    /\ raised = None
    /\ pc = [t \in Threads |-> IF t = "caller" THEN "idle" ELSE "loop"]
    /\ wire = <<>>
    /\ kills = 0

Init == Start(PoolSize)

goto(t, label) == pc' = [pc EXCEPT ![t] = label]

\* the default error_callback of Base.__init__
error_callback(e) == error_queue' = Append(error_queue, e)

Remove(s, i) == SubSeq(s, 1, i - 1) \o SubSeq(s, i + 1, Len(s))

(***************************************************************************)
(* The caller: Base.submit, Base.open, Base.process_errors, Base.kill.     *)
(***************************************************************************)
\* a pop() that waits for a free id instead of raising
PopForBlocking(kind, next) ==
    /\ queue # <<>>
    /\ Len(cmds) < MaxCmds
    /\ cmds' = Append(cmds, NewCommand(kind, Head(queue)))
    /\ queue' = Tail(queue)
    /\ cur' = Len(cmds) + 1
    /\ raised' = None
    /\ goto("caller", next)

\* IdManager.pop() as called by submit() and open(): a command with the id
\* at the front of the free list, or RuntimeError when the list is empty
PopFor(kind, next) ==
    IF queue = <<>>
    THEN /\ raised' = RuntimeError
         /\ UNCHANGED <<queue, cmds, cur, pc>>
    ELSE /\ Len(cmds) < MaxCmds
         /\ cmds' = Append(cmds, NewCommand(kind, Head(queue)))
         /\ queue' = Tail(queue)
         /\ cur' = Len(cmds) + 1
         /\ raised' = None
         /\ goto("caller", next)

\* a submit() that queues the command for sending as soon as it has its
\* id, before the command is in the pending table
SubmitPopEnqueueFirst(kind) ==
    /\ pc["caller"] = "idle"
    /\ PopFor(kind, "submit_lock")
    /\ cmd_queue' = IF queue = <<>> THEN cmd_queue
                                    ELSE Append(cmd_queue, Len(cmds) + 1)
    /\ UNCHANGED <<pending, pending_lock, error_queue, stop_event,
                   serial_lock, ser_in, written, closed, buffer, byte_count,
                   replies, index, tx_cmd, wire, kills>>

\* submit(cmd): cmd.job = self._id_manager.pop()
SubmitPop(kind) ==
    /\ pc["caller"] = "idle"
    /\ PopFor(kind, "submit_lock")
    /\ UNCHANGED <<pending, pending_lock, cmd_queue, error_queue, stop_event,
                   serial_lock, ser_in, written, closed, buffer, byte_count,
                   replies, index, tx_cmd, wire, kills>>

\* IdManager.pop() as called by submit(), the caller creating at most max
\* commands
PopUpTo(kind, next, max) ==
    IF queue = <<>>
    THEN /\ raised' = RuntimeError
         /\ UNCHANGED <<queue, cmds, cur, pc>>
    ELSE /\ Len(cmds) < max
         /\ cmds' = Append(cmds, NewCommand(kind, Head(queue)))
         /\ queue' = Tail(queue)
         /\ cur' = Len(cmds) + 1
         /\ raised' = None
         /\ goto("caller", next)

\* submit(cmd): cmd.job = self._id_manager.pop()
SubmitPopUpTo(kind, max) ==
    /\ pc["caller"] = "idle"
    /\ PopUpTo(kind, "submit_lock", max)
    /\ UNCHANGED <<pending, pending_lock, cmd_queue, error_queue, stop_event,
                   serial_lock, ser_in, written, closed, buffer, byte_count,
                   replies, index, tx_cmd, wire, kills>>

\* submit() that appends without waiting for the pending lock
SubmitLockUnguarded ==
    /\ pc["caller"] = "submit_lock"
    /\ pending_lock' = "caller"
    /\ goto("caller", "submit_append")
    /\ UNCHANGED <<queue, cmds, pending, cmd_queue, error_queue, stop_event,
                   serial_lock, ser_in, written, closed, buffer, byte_count,
                   replies, index, tx_cmd, cur, raised, wire, kills>>

\* submit(cmd): entering "with self._pending_lock"
SubmitLock ==
    /\ pc["caller"] = "submit_lock"
    /\ pending_lock = "free"
    /\ pending_lock' = "caller"
    /\ goto("caller", "submit_append")
    /\ UNCHANGED <<queue, cmds, pending, cmd_queue, error_queue, stop_event,
                   serial_lock, ser_in, written, closed, buffer, byte_count,
                   replies, index, tx_cmd, cur, raised, wire, kills>>

\* submit(cmd): self._pending.append(cmd) and leaving the with block
SubmitAppend ==
    /\ pc["caller"] = "submit_append"
    /\ pending' = Append(pending, cur)
    /\ pending_lock' = "free"
    /\ goto("caller", "submit_put")
    /\ UNCHANGED <<queue, cmds, cmd_queue, error_queue, stop_event,
                   serial_lock, ser_in, written, closed, buffer, byte_count,
                   replies, index, tx_cmd, cur, raised, wire, kills>>

\* submit(cmd): self._cmd_queue.put(cmd) and return
SubmitPut ==
    /\ pc["caller"] = "submit_put"
    /\ cmd_queue' = Append(cmd_queue, cur)
    /\ cur' = 0
    /\ goto("caller", "idle")
    /\ UNCHANGED <<queue, cmds, pending, pending_lock, error_queue, stop_event,
                   serial_lock, ser_in, written, closed, buffer, byte_count,
                   replies, index, tx_cmd, raised, wire, kills>>

\* open(): cmd = CmdReady(); cmd.job = self._id_manager.pop()
OpenPop ==
    /\ pc["caller"] = "idle"
    /\ PopFor(READY, "open_lock")
    /\ UNCHANGED <<pending, pending_lock, cmd_queue, error_queue, stop_event,
                   serial_lock, ser_in, written, closed, buffer, byte_count,
                   replies, index, tx_cmd, wire, kills>>

\* open(): entering "with self._pending_lock"
OpenLock ==
    /\ pc["caller"] = "open_lock"
    /\ pending_lock = "free"
    /\ pending_lock' = "caller"
    /\ goto("caller", "open_append")
    /\ UNCHANGED <<queue, cmds, pending, cmd_queue, error_queue, stop_event,
                   serial_lock, ser_in, written, closed, buffer, byte_count,
                   replies, index, tx_cmd, cur, raised, wire, kills>>

\* an open() that queues the READY command for sending, as submit() does
OpenAppendEnqueue ==
    /\ pc["caller"] = "open_append"
    /\ pending' = Append(pending, cur)
    /\ pending_lock' = "free"
    /\ cmd_queue' = Append(cmd_queue, cur)
    /\ cur' = 0
    /\ goto("caller", "idle")
    /\ UNCHANGED <<queue, cmds, error_queue, stop_event,
                   serial_lock, ser_in, written, closed, buffer, byte_count,
                   replies, index, tx_cmd, raised, wire, kills>>

\* open(): self._pending.append(cmd), leaving the with block and return
OpenAppend ==
    /\ pc["caller"] = "open_append"
    /\ pending' = Append(pending, cur)
    /\ pending_lock' = "free"
    /\ cur' = 0
    /\ goto("caller", "idle")
    /\ UNCHANGED <<queue, cmds, cmd_queue, error_queue, stop_event,
                   serial_lock, ser_in, written, closed, buffer, byte_count,
                   replies, index, tx_cmd, raised, wire, kills>>

\* a process_errors() that drains the whole error queue
ProcessErrorsDrainAll(abort) ==
    /\ pc["caller"] = "idle"
    /\ IF error_queue = <<>>
       THEN /\ raised' = None
            /\ UNCHANGED <<error_queue, stop_event>>
       ELSE /\ error_queue' = <<>>
            /\ stop_event' = (stop_event \/ abort)
            /\ raised' = Head(error_queue)
    /\ UNCHANGED <<queue, cmds, pending, pending_lock, cmd_queue,
                   serial_lock, ser_in, written, closed, buffer, byte_count,
                   replies, index, tx_cmd, cur, pc, wire, kills>>

\* process_errors(abort)
ProcessErrors(abort) ==
    /\ pc["caller"] = "idle"
    /\ IF error_queue = <<>>
       THEN /\ raised' = None
            /\ UNCHANGED <<error_queue, stop_event>>
       ELSE /\ error_queue' = Tail(error_queue)
            /\ stop_event' = (stop_event \/ abort)
            /\ raised' = Head(error_queue)
    /\ UNCHANGED <<queue, cmds, pending, pending_lock, cmd_queue,
                   serial_lock, ser_in, written, closed, buffer, byte_count,
                   replies, index, tx_cmd, cur, pc, wire, kills>>

\* kill(): self._stop_event.set()
KillSet ==
    /\ pc["caller"] = "idle"
    /\ kills < MaxKills
    /\ kills' = kills + 1
    /\ stop_event' = TRUE
    /\ raised' = None
    /\ goto("caller", "kill_close")
    /\ UNCHANGED <<queue, cmds, pending, pending_lock, cmd_queue, error_queue,
                   serial_lock, ser_in, written, closed, buffer, byte_count,
                   replies, index, tx_cmd, cur, wire>>

\* kill(): self._serial.close() and return
KillClose ==
    /\ pc["caller"] = "kill_close"
    /\ closed' = closed + 1
    /\ goto("caller", "idle")
    /\ UNCHANGED <<queue, cmds, pending, pending_lock, cmd_queue, error_queue,
                   stop_event, serial_lock, ser_in, written, buffer, byte_count,
                   replies, index, tx_cmd, cur, raised, wire, kills>>

(***************************************************************************)
(* The receive loop: _MessageThread.run, _run_impl and _receive.           *)
(***************************************************************************)
\* an exception leaves run()'s while loop: the except clause reports it and
\* the thread ends
RxDie(e) ==
    /\ error_callback(e)
    /\ replies' = <<>>
    /\ index' = 0
    /\ goto("rx", "done")

\* a receive loop that never looks at the stop event
RunLoopForever ==
    /\ pc["rx"] = "loop"
    /\ goto("rx", "in_waiting_lock")
    /\ UNCHANGED <<queue, cmds, pending, pending_lock, cmd_queue, error_queue,
                   stop_event, serial_lock, ser_in, written, closed, buffer,
                   byte_count, replies, index, tx_cmd, cur, raised, wire, kills>>

\* run(): while not self._stop_event.is_set()
RunLoop ==
    /\ pc["rx"] = "loop"
    /\ goto("rx", IF stop_event THEN "done" ELSE "in_waiting_lock")
    /\ UNCHANGED <<queue, cmds, pending, pending_lock, cmd_queue, error_queue,
                   stop_event, serial_lock, ser_in, written, closed, buffer,
                   byte_count, replies, index, tx_cmd, cur, raised, wire, kills>>

\* _run_impl(): entering the first "with self._serial_lock"
InWaitingLock ==
    /\ pc["rx"] = "in_waiting_lock"
    /\ serial_lock = "free"
    /\ serial_lock' = "rx"
    /\ goto("rx", "in_waiting")
    /\ UNCHANGED <<queue, cmds, pending, pending_lock, cmd_queue, error_queue,
                   stop_event, ser_in, written, closed, buffer, byte_count,
                   replies, index, tx_cmd, cur, raised, wire, kills>>

\* _run_impl(): byte_count = self._serial.in_waiting, leaving the with
\* block; with no bytes _run_impl returns and run() sleeps.  On a port that
\* kill() has closed the access either still answers (the tests' double) or
\* raises (pyserial), which ends the loop through run()'s except clause
InWaiting ==
    /\ pc["rx"] = "in_waiting"
    /\ serial_lock' = "free"
    /\ \/ /\ byte_count' = Len(ser_in)
          /\ goto("rx", IF Len(ser_in) = 0 THEN "loop" ELSE "read_lock")
          /\ UNCHANGED <<error_queue, replies, index>>
       \/ /\ closed > 0
          /\ RxDie(SerialException)
          /\ UNCHANGED byte_count
    /\ UNCHANGED <<queue, cmds, pending, pending_lock, cmd_queue,
                   stop_event, ser_in, written, closed, buffer,
                   tx_cmd, cur, raised, wire, kills>>

\* _run_impl(): byte_count = self._serial.in_waiting while only the first
\* bytes of what the device has sent have arrived at the port
InWaitingPartial ==
    /\ pc["rx"] = "in_waiting"
    /\ serial_lock' = "free"
    /\ \E n \in 1..(Len(ser_in) - 1) : byte_count' = n
    /\ goto("rx", "read_lock")
    /\ UNCHANGED <<queue, cmds, pending, pending_lock, cmd_queue, error_queue,
                   stop_event, ser_in, written, closed, buffer, replies, index,
                   tx_cmd, cur, raised, wire, kills>>

\* _run_impl(): entering the second "with self._serial_lock"
ReadLock ==
    /\ pc["rx"] = "read_lock"
    /\ serial_lock = "free"
    /\ serial_lock' = "rx"
    /\ goto("rx", "read")
    /\ UNCHANGED <<queue, cmds, pending, pending_lock, cmd_queue, error_queue,
                   stop_event, ser_in, written, closed, buffer, byte_count,
                   replies, index, tx_cmd, cur, raised, wire, kills>>

\* a read that keeps the serial lock while the replies are dispatched
ReadKeepLock ==
    /\ pc["rx"] = "read"
    /\ byte_count' = 0
    /\ \/ /\ ser_in' = SubSeq(ser_in, byte_count + 1, Len(ser_in))
          /\ LET data == buffer \o SubSeq(ser_in, 1, byte_count)
                 chunks == split(data)
                 complete == SubSeq(chunks, 1, Len(chunks) - 1)
             IN  /\ buffer' = chunks[Len(chunks)]
                 /\ IF \A i \in 1..Len(complete) : Loads(complete[i])
                    THEN /\ replies' = [i \in 1..Len(complete) |->
                                           loads(complete[i])]
                         /\ goto("rx", "receive")
                         /\ UNCHANGED <<error_queue, index, serial_lock>>
                    ELSE /\ RxDie(JSONDecodeError)
                         /\ serial_lock' = "free"
       \/ /\ closed > 0
          /\ RxDie(SerialException)
          /\ serial_lock' = "free"
          /\ UNCHANGED <<ser_in, buffer>>
    /\ UNCHANGED <<queue, cmds, pending, pending_lock, cmd_queue, stop_event,
                   written, closed, tx_cmd, cur, raised, wire, kills>>

\* a read that drops the chunks that do not parse and goes on
ReadSkipFlawed ==
    /\ pc["rx"] = "read"
    /\ serial_lock' = "free"
    /\ byte_count' = 0
    /\ ser_in' = SubSeq(ser_in, byte_count + 1, Len(ser_in))
    /\ LET data == buffer \o SubSeq(ser_in, 1, byte_count)
           chunks == split(data)
           complete == SelectSeq(SubSeq(chunks, 1, Len(chunks) - 1), Loads)
       IN  /\ buffer' = chunks[Len(chunks)]
           /\ replies' = [i \in 1..Len(complete) |-> loads(complete[i])]
           /\ goto("rx", "receive")
    /\ UNCHANGED <<queue, cmds, pending, pending_lock, cmd_queue, stop_event,
                   written, closed, tx_cmd, cur, raised, wire, kills,
                   error_queue, index>>

\* _run_impl(): self._buffer += self._serial.read(byte_count), leaving the
\* with block, then split the buffer, keep the remainder and json.loads
\* every chunk; a chunk that does not parse raises out of run()'s loop
Read ==
    /\ pc["rx"] = "read"
    /\ serial_lock' = "free"
    /\ byte_count' = 0
    /\ \/ /\ ser_in' = SubSeq(ser_in, byte_count + 1, Len(ser_in))
          /\ LET data == buffer \o SubSeq(ser_in, 1, byte_count)
                 chunks == split(data)
                 complete == SubSeq(chunks, 1, Len(chunks) - 1)
             IN  /\ buffer' = chunks[Len(chunks)]
                 /\ IF \A i \in 1..Len(complete) : Loads(complete[i])
                    THEN /\ replies' = [i \in 1..Len(complete) |->
                                           loads(complete[i])]
                         /\ goto("rx", "receive")
                         /\ UNCHANGED <<error_queue, index>>
                    ELSE RxDie(JSONDecodeError)
       \/ /\ closed > 0
          /\ RxDie(SerialException)
          /\ UNCHANGED <<ser_in, buffer>>
    /\ UNCHANGED <<queue, cmds, pending, pending_lock, cmd_queue, stop_event,
                   written, closed, tx_cmd, cur, raised, wire, kills>>

\* _run_impl(): the for loop is over; run() sleeps and checks the event
ReceiveEnd ==
    /\ pc["rx"] = "receive"
    /\ replies = <<>>
    /\ goto("rx", "loop")
    /\ UNCHANGED <<queue, cmds, pending, pending_lock, cmd_queue, error_queue,
                   stop_event, serial_lock, ser_in, written, closed, buffer,
                   byte_count, replies, index, tx_cmd, cur, raised, wire, kills>>

\* a _receive that reports general errors only and drops any other reply
\* without a job
ReceiveHeadDropOutOfTurn ==
    /\ pc["rx"] = "receive"
    /\ replies # <<>>
    /\ LET reply == Head(replies) IN
       IF ~Has(reply, "command")
       THEN /\ RxDie(KeyError("command"))
            /\ UNCHANGED pending_lock
       ELSE IF ~Has(reply, "job")
       THEN /\ IF startswith(reply.command, ERROR)
               THEN error_callback(ControllinoError("received error msg", reply))
               ELSE UNCHANGED error_queue
            /\ replies' = Tail(replies)
            /\ UNCHANGED <<pending_lock, index, pc>>
       ELSE /\ pending_lock = "free"
            /\ pending_lock' = "rx"
            /\ goto("rx", "update")
            /\ UNCHANGED <<error_queue, replies, index>>
    /\ UNCHANGED <<queue, cmds, pending, cmd_queue, stop_event, serial_lock,
                   ser_in, written, closed, buffer, byte_count, tx_cmd, cur,
                   raised, wire, kills>>

\* _receive(reply) up to "with self._pending_lock": a reply without the
\* key command raises KeyError, a reply without a job is reported
ReceiveHead ==
    /\ pc["rx"] = "receive"
    /\ replies # <<>>
    /\ LET reply == Head(replies) IN
       IF ~Has(reply, "command")
       THEN /\ RxDie(KeyError("command"))
            /\ UNCHANGED pending_lock
       ELSE IF ~Has(reply, "job")
       THEN /\ IF startswith(reply.command, ERROR)
               THEN error_callback(ControllinoError("received error msg", reply))
               ELSE error_callback(ControllinoError("out-of-turn reply", reply))
            /\ replies' = Tail(replies)
            /\ UNCHANGED <<pending_lock, index, pc>>
       ELSE /\ pending_lock = "free"
            /\ pending_lock' = "rx"
            /\ goto("rx", "update")
            /\ UNCHANGED <<error_queue, replies, index>>
    /\ UNCHANGED <<queue, cmds, pending, cmd_queue, stop_event, serial_lock,
                   ser_in, written, closed, buffer, byte_count, tx_cmd, cur,
                   raised, wire, kills>>

\* a lookup that takes the oldest pending command, whatever its job id
IndexOfOldest(job) == IF pending = <<>> THEN 0 ELSE 1

\* the index of the first pending command whose job id is job, 0 if none
IndexOf(job) ==
    IF \E i \in 1..Len(pending) : cmds[pending[i]].job = job
    THEN CHOOSE i \in 1..Len(pending) :
           /\ cmds[pending[i]].job = job
           /\ \A j \in 1..(i - 1) : cmds[pending[j]].job # job
    ELSE 0

\* a _receive that leaves the with block without releasing the pending
\* lock when update raises
ReceiveUpdateKeepLock ==
    /\ pc["rx"] = "update"
    /\ LET reply == Head(replies)
           i == IndexOf(reply.job)
           out == update(cmds[pending[i]], reply)
       IN  IF i = 0
           THEN /\ error_callback(ControllinoError("invalid job id", reply))
                /\ pending_lock' = "free"
                /\ replies' = Tail(replies)
                /\ goto("rx", "receive")
                /\ UNCHANGED <<cmds, index>>
           ELSE /\ cmds' = [cmds EXCEPT ![pending[i]] = out.cmd]
                /\ IF out.raised # None
                   THEN /\ UNCHANGED pending_lock
                        /\ RxDie(out.raised)
                   ELSE IF out.ret = "True"
                   THEN /\ index' = i
                        /\ goto("rx", "destroy")
                        /\ UNCHANGED <<pending_lock, error_queue, replies>>
                   ELSE /\ pending_lock' = "free"
                        /\ replies' = Tail(replies)
                        /\ goto("rx", "receive")
                        /\ UNCHANGED <<error_queue, index>>
    /\ UNCHANGED <<queue, pending, cmd_queue, stop_event, serial_lock, ser_in,
                   written, closed, buffer, byte_count, tx_cmd, cur, raised,
                   wire, kills>>

\* _receive(reply) inside "with self._pending_lock": look the command up
\* and update it
ReceiveUpdate ==
    /\ pc["rx"] = "update"
    /\ LET reply == Head(replies)
           i == IndexOf(reply.job)
           out == update(cmds[pending[i]], reply)
       IN  IF i = 0
           THEN /\ error_callback(ControllinoError("invalid job id", reply))
                /\ pending_lock' = "free"
                /\ replies' = Tail(replies)
                /\ goto("rx", "receive")
                /\ UNCHANGED <<cmds, index>>
           ELSE /\ cmds' = [cmds EXCEPT ![pending[i]] = out.cmd]
                /\ IF out.raised # None
                   THEN /\ pending_lock' = "free"
                        /\ RxDie(out.raised)
                   ELSE IF out.ret = "True"
                   THEN /\ index' = i
                        /\ goto("rx", "destroy")
                        /\ UNCHANGED <<pending_lock, error_queue, replies>>
                   ELSE /\ pending_lock' = "free"
                        /\ replies' = Tail(replies)
                        /\ goto("rx", "receive")
                        /\ UNCHANGED <<error_queue, index>>
    /\ UNCHANGED <<queue, pending, cmd_queue, stop_event, serial_lock, ser_in,
                   written, closed, buffer, byte_count, tx_cmd, cur, raised,
                   wire, kills>>

\* a put that recycles the id twice
putTwice(value) == queue' = queue \o <<value, value>>

\* a put that recycles the id at the front of the free list
putFront(value) == queue' = <<value>> \o queue

\* IdManager.put(value)
put(value) == queue' = Append(queue, value)

\* a _receive that deletes a completed command without recycling its id
ReceiveDestroyKeepId ==
    /\ pc["rx"] = "destroy"
    /\ goto("rx", "del")
    /\ UNCHANGED <<queue, cmds, pending, pending_lock, cmd_queue, error_queue,
                   stop_event, serial_lock, ser_in, written, closed, buffer,
                   byte_count, replies, index, tx_cmd, cur, raised, wire, kills>>

\* _receive(reply): cmd.job.destroy()
ReceiveDestroy ==
    /\ pc["rx"] = "destroy"
    /\ put(cmds[pending[index]].job)
    /\ goto("rx", "del")
    /\ UNCHANGED <<cmds, pending, pending_lock, cmd_queue, error_queue,
                   stop_event, serial_lock, ser_in, written, closed, buffer,
                   byte_count, replies, index, tx_cmd, cur, raised, wire, kills>>

\* _receive(reply): del self._pending[index] and leaving the with block
ReceiveDel ==
    /\ pc["rx"] = "del"
    /\ pending' = Remove(pending, index)
    /\ pending_lock' = "free"
    /\ index' = 0
    /\ replies' = Tail(replies)
    /\ goto("rx", "receive")
    /\ UNCHANGED <<queue, cmds, cmd_queue, error_queue, stop_event,
                   serial_lock, ser_in, written, closed, buffer, byte_count,
                   tx_cmd, cur, raised, wire, kills>>

(***************************************************************************)
(* The send loop: _CommandThread.run.                                      *)
(***************************************************************************)
\* a send loop that also ends when the receive loop has ended
CmdLoopLinked ==
    /\ pc["tx"] = "loop"
    /\ goto("tx", IF stop_event \/ pc["rx"] = "done" THEN "done" ELSE "get")
    /\ UNCHANGED <<queue, cmds, pending, pending_lock, cmd_queue, error_queue,
                   stop_event, serial_lock, ser_in, written, closed, buffer,
                   byte_count, replies, index, tx_cmd, cur, raised, wire, kills>>

\* run(): while not self._stop_event.is_set()
CmdLoop ==
    /\ pc["tx"] = "loop"
    /\ goto("tx", IF stop_event THEN "done" ELSE "get")
    /\ UNCHANGED <<queue, cmds, pending, pending_lock, cmd_queue, error_queue,
                   stop_event, serial_lock, ser_in, written, closed, buffer,
                   byte_count, replies, index, tx_cmd, cur, raised, wire, kills>>

\* a send loop that takes the newest command of the queue
CmdGetNewest ==
    /\ pc["tx"] = "get"
    /\ IF cmd_queue = <<>>
       THEN /\ goto("tx", "loop")
            /\ UNCHANGED <<cmd_queue, tx_cmd>>
       ELSE /\ tx_cmd' = cmd_queue[Len(cmd_queue)]
            /\ cmd_queue' = SubSeq(cmd_queue, 1, Len(cmd_queue) - 1)
            /\ goto("tx", "write")
    /\ UNCHANGED <<queue, cmds, pending, pending_lock, error_queue,
                   stop_event, serial_lock, ser_in, written, closed, buffer,
                   byte_count, replies, index, cur, raised, wire, kills>>

\* run(): cmd = self._cmd_queue.get_nowait(); on queue.Empty sleep and
\* continue
CmdGet ==
    /\ pc["tx"] = "get"
    /\ IF cmd_queue = <<>>
       THEN /\ goto("tx", "loop")
            /\ UNCHANGED <<cmd_queue, tx_cmd>>
       ELSE /\ tx_cmd' = Head(cmd_queue)
            /\ cmd_queue' = Tail(cmd_queue)
            /\ goto("tx", "write")
    /\ UNCHANGED <<queue, cmds, pending, pending_lock, error_queue,
                   stop_event, serial_lock, ser_in, written, closed, buffer,
                   byte_count, replies, index, cur, raised, wire, kills>>

\* run(): self._serial.write(_encode(cmd.serialize())); on a closed port
\* the write either is accepted or raises into run()'s except clause
CmdWrite ==
    /\ pc["tx"] = "write"
    /\ tx_cmd' = 0
    /\ \/ /\ written' = Append(written, [cmd |-> tx_cmd,
                                          data |-> encode(serialize(cmds[tx_cmd]))])
          /\ goto("tx", "loop")
          /\ UNCHANGED error_queue
       \/ /\ closed > 0
          /\ error_callback(SerialException)
          /\ goto("tx", "done")
          /\ UNCHANGED written
    /\ UNCHANGED <<queue, cmds, pending, pending_lock, cmd_queue,
                   stop_event, serial_lock, ser_in, closed, buffer,
                   byte_count, replies, index, cur, raised, wire, kills>>

\* run(): self._serial.write raises (an I/O error of the device); the
\* except clause reports it and the thread ends
CmdWriteError ==
    /\ pc["tx"] = "write"
    /\ tx_cmd' = 0
    /\ error_callback(SerialException)
    /\ goto("tx", "done")
    /\ UNCHANGED <<queue, cmds, pending, pending_lock, cmd_queue,
                   stop_event, serial_lock, ser_in, written, closed, buffer,
                   byte_count, replies, index, cur, raised, wire, kills>>

(***************************************************************************)
(* The peer device: it sends one encoded frame at a time                   *)
(* (tests: DummySerial.put(_encode(cmd))).                                 *)
(***************************************************************************)
\* The frames the device may send as its n-th frame, for the job ids jobs.
\* The payload of a frame names the frame: a GET_INPUT reply for job j
\* carries the level 10 * n + j, a LOG_SIGNAL reply the sample (n, 10 * n).
Jobs(size) == 0..(size - 1)

Replies(names, jobs) == {[command |-> c, job |-> j] : c \in names, j \in jobs}

GetInputReplies(n, jobs) ==
    {[command |-> "RX_GET_INPUT", job |-> j, level |-> 10 * n + j] : j \in jobs}

LogSignalReplies(n, jobs) ==
    {[command |-> "RX_LOG_SIGNAL", job |-> j, time |-> n, value |-> 10 * n,
      done |-> d] : j \in jobs, d \in BOOLEAN}

UnsolicitedFrames ==
    {[command |-> "ERROR_PANIC"], [command |-> "RX_UNKNOWN"], [cmd |-> "RX_UNKNOWN"]}

\* DummySerial.put(_encode(frame))
DevicePut(frames, max) ==
    /\ Len(wire) < max
    /\ \E frame \in frames :
         /\ ser_in' = ser_in \o encode(frame)
         /\ wire' = Append(wire, frame)
    /\ UNCHANGED <<queue, cmds, pending, pending_lock, cmd_queue, error_queue,
                   stop_event, serial_lock, written, closed, buffer,
                   byte_count, replies, index, tx_cmd, cur, raised, pc, kills>>

\* a frame that arrives with one extraneous byte in front of it, and a
\* segment that holds nothing but such a byte
\* (tests: DummySerial.put(b'_' + _encode(cmd)))
Junk == <<[b |-> "_"]>>

Flawed(frame) == [flawed |-> frame]

DevicePutFlawed(frames, max) ==
    /\ Len(wire) < max
    /\ \/ \E frame \in frames :
            /\ ser_in' = ser_in \o Junk \o encode(frame)
            /\ wire' = Append(wire, Flawed(frame))
       \/ /\ ser_in' = ser_in \o Junk \o DELIM
          /\ wire' = Append(wire, Flawed(None))
    /\ UNCHANGED <<queue, cmds, pending, pending_lock, cmd_queue, error_queue,
                   stop_event, serial_lock, written, closed, buffer,
                   byte_count, replies, index, tx_cmd, cur, raised, pc, kills>>

\* A device that answers what it is sent (tests: test_get_signal,
\* test_log_signal): the written commands in their order, a GET_INPUT with
\* its success reply, a LOG_SIGNAL with samples of which the last has
\* done = true.  A reply that ends the answer to a command is final.
IsFinal(frame) ==
    \/ frame.command = "RX_GET_INPUT"
    \/ frame.command = "RX_LOG_SIGNAL" /\ frame.done

\* the number of the write the device is answering
Answering == Len(SelectSeq(wire, IsFinal)) + 1

\* the frame that ends the answer to the command
FinalAnswer(cmd, n) ==
    IF cmd.kind = "LOG_SIGNAL"
    THEN [command |-> "RX_LOG_SIGNAL", job |-> cmd.job, time |-> n,
          value |-> 10 * n, done |-> TRUE]
    ELSE [command |-> "RX_GET_INPUT", job |-> cmd.job, level |-> 10 * n + cmd.job]

\* the device sends the reply that ends its answer to a written command
DeviceAnswer ==
    /\ Answering <= Len(written)
    /\ LET frame == FinalAnswer(cmds[written[Answering].cmd], Len(wire) + 1)
       IN  /\ ser_in' = ser_in \o encode(frame)
           /\ wire' = Append(wire, frame)
    /\ UNCHANGED <<queue, cmds, pending, pending_lock, cmd_queue, error_queue,
                   stop_event, serial_lock, written, closed, buffer,
                   byte_count, replies, index, tx_cmd, cur, raised, pc, kills>>

\* the device sends a sample that is not the last one of a recording, at
\* most max of them
DeviceSample(max) ==
    /\ Answering <= Len(written)
    /\ cmds[written[Answering].cmd].kind = "LOG_SIGNAL"
    /\ Len(wire) - Len(SelectSeq(wire, IsFinal)) < max
    /\ LET frame == [FinalAnswer(cmds[written[Answering].cmd], Len(wire) + 1)
                        EXCEPT !.done = FALSE]
       IN  /\ ser_in' = ser_in \o encode(frame)
           /\ wire' = Append(wire, frame)
    /\ UNCHANGED <<queue, cmds, pending, pending_lock, cmd_queue, error_queue,
                   stop_event, serial_lock, written, closed, buffer,
                   byte_count, replies, index, tx_cmd, cur, raised, pc, kills>>

(***************************************************************************)
(* Specifications.                                                         *)
(***************************************************************************)
Caller ==
    \/ \E kind \in SubmitKinds : SubmitPop(kind)
    \/ SubmitLock
    \/ SubmitAppend
    \/ SubmitPut
    \/ OpenPop
    \/ OpenLock
    \/ OpenAppend
    \/ \E abort \in BOOLEAN : ProcessErrors(abort)
    \/ KillSet
    \/ KillClose

MessageThread ==
    \/ RunLoop
    \/ InWaitingLock
    \/ InWaiting
    \/ ReadLock
    \/ Read
    \/ ReceiveEnd
    \/ ReceiveHead
    \/ ReceiveUpdate
    \/ ReceiveDestroy
    \/ ReceiveDel

CommandThread ==
    \/ CmdLoop
    \/ CmdGet
    \/ CmdWrite

\* the number of the frame the device sends next
seqno == Len(wire) + 1

\* every operation, the device sending replies of any kind
Next ==
    \/ Caller
    \/ MessageThread
    \/ CommandThread
    \/ DevicePut(Replies({"RX_READY", "RX_LOAD_PIN_MODES", "ERR_LOAD_PIN_MODES",
                          "ERR_GET_INPUT", "ERR_LOG_SIGNAL", "ERR_COMMAND_INVALID"},
                         Jobs(PoolSize))
                   \cup GetInputReplies(seqno, Jobs(PoolSize))
                   \cup LogSignalReplies(seqno, Jobs(PoolSize))
                   \cup UnsolicitedFrames, MaxFrames)

Spec == Init /\ [][Next]_vars

\* submit() of GET_INPUT commands and open() against both loops, the device
\* sending success replies for any job id
NextJobs ==
    \/ SubmitPop("GET_INPUT")
    \/ SubmitLock
    \/ SubmitAppend
    \/ SubmitPut
    \/ OpenPop
    \/ OpenLock
    \/ OpenAppend
    \/ MessageThread
    \/ CommandThread
    \/ DevicePut(Replies({"RX_READY"}, Jobs(PoolSize))
                   \cup GetInputReplies(seqno, Jobs(PoolSize)), MaxFrames)

SpecJobs == Init /\ [][NextJobs]_vars

\* the same with a pool that holds one id more and without open(): two
\* commands can be outstanding together
PairSize == PoolSize + 1

NextPair ==
    \/ SubmitPop("GET_INPUT")
    \/ SubmitLock
    \/ SubmitAppend
    \/ SubmitPut
    \/ MessageThread
    \/ CommandThread
    \/ DevicePut(GetInputReplies(seqno, Jobs(PairSize)), MaxFrames)

SpecPair == Start(PairSize) /\ [][NextPair]_vars

\* the success reply, the error reply and the reply to an invalid command,
\* for any job id
PinModeReplies ==
    Replies({"RX_LOAD_PIN_MODES", "ERR_LOAD_PIN_MODES", "ERR_COMMAND_INVALID"},
            Jobs(PoolSize))

\* submit() of LOAD_PIN_MODES commands, the device sending success and
\* error replies for any job id
NextErr ==
    \/ SubmitPop("LOAD_PIN_MODES")
    \/ SubmitLock
    \/ SubmitAppend
    \/ SubmitPut
    \/ MessageThread
    \/ CommandThread
    \/ DevicePut(PinModeReplies, MaxFrames)

SpecErr == Init /\ [][NextErr]_vars

\* submit() of LOG_SIGNAL commands, the device sending samples for any job
\* id
NextLog ==
    \/ (queue = <<>> \/ Len(cmds) < MaxLogCmds) /\ SubmitPop("LOG_SIGNAL")
    \/ SubmitLock
    \/ SubmitAppend
    \/ SubmitPut
    \/ MessageThread
    \/ CommandThread
    \/ DevicePut(LogSignalReplies(seqno, Jobs(PoolSize)), MaxLogFrames)

SpecLog == Init /\ [][NextLog]_vars

\* the same, the device sending samples and error replies for any job id
NextLogErr ==
    \/ (queue = <<>> \/ Len(cmds) < MaxLogCmds) /\ SubmitPop("LOG_SIGNAL")
    \/ SubmitLock
    \/ SubmitAppend
    \/ SubmitPut
    \/ MessageThread
    \/ CommandThread
    \/ DevicePut(LogSignalReplies(seqno, Jobs(PoolSize))
                   \cup Replies({"ERR_LOG_SIGNAL"}, Jobs(PoolSize)), MaxFrames)

SpecLogErr == Init /\ [][NextLogErr]_vars

\* SpecPair with the send loop scheduled fairly: the daemon thread is
\* never starved, and nothing sets the stop event
SpecPairFair == SpecPair /\ WF_vars(CommandThread)

\* success replies and the frames that carry no job id
ReportedFrames ==
    {[command |-> "RX_LOAD_PIN_MODES", job |-> j] : j \in Jobs(PoolSize)}
      \cup UnsolicitedFrames

\* submit() and process_errors() against both loops, the device sending
\* success replies and the frames that are reported as errors
NextErrors ==
    \/ SubmitPop("LOAD_PIN_MODES")
    \/ SubmitLock
    \/ SubmitAppend
    \/ SubmitPut
    \/ \E abort \in BOOLEAN : ProcessErrors(abort)
    \/ MessageThread
    \/ CommandThread
    \/ DevicePut(ReportedFrames, MaxFrames)

SpecErrors == Init /\ [][NextErrors]_vars

\* an error frame without a job id and the success replies
StopFrames ==
    {[command |-> "RX_LOAD_PIN_MODES", job |-> j] : j \in Jobs(PoolSize)}
      \cup {[command |-> "ERROR_PANIC"]}

\* submit(), process_errors() and kill() against both loops
NextKill ==
    \/ (queue = <<>> \/ Len(cmds) < MaxStopCmds) /\ SubmitPop("LOAD_PIN_MODES")
    \/ SubmitLock
    \/ SubmitAppend
    \/ SubmitPut
    \/ ProcessErrors(TRUE)
    \/ KillSet
    \/ KillClose
    \/ MessageThread
    \/ CommandThread
    \/ DevicePut(StopFrames, MaxStopFrames)

\* a call of the caller that has begun runs to its return
Returning == SubmitLock \/ SubmitAppend \/ SubmitPut \/ KillClose

\* both daemon threads are scheduled, and the caller does not stop inside a
\* call
SpecKill ==
    /\ Init
    /\ [][NextKill]_vars
    /\ WF_vars(MessageThread)
    /\ WF_vars(CommandThread)
    /\ WF_vars(Returning)

\* submit() and process_errors(abort = True) against both loops, without
\* kill(): the serial device stays open
NextAbort ==
    \/ (queue = <<>> \/ Len(cmds) < MaxStopCmds) /\ SubmitPop("LOAD_PIN_MODES")
    \/ SubmitLock
    \/ SubmitAppend
    \/ SubmitPut
    \/ ProcessErrors(TRUE)
    \/ MessageThread
    \/ CommandThread
    \/ DevicePut(StopFrames, MaxFrames)

SpecAbort == Init /\ [][NextAbort]_vars

\* submit() of GET_INPUT commands against both loops, the device sending
\* success replies, some of them behind an extraneous byte
NextFlawed ==
    \/ SubmitPop("GET_INPUT")
    \/ SubmitLock
    \/ SubmitAppend
    \/ SubmitPut
    \/ MessageThread
    \/ CommandThread
    \/ DevicePut(GetInputReplies(seqno, Jobs(PoolSize)), MaxFrames)
    \/ DevicePutFlawed(GetInputReplies(seqno, Jobs(PoolSize)), MaxFrames)

SpecFlawed == Init /\ [][NextFlawed]_vars

\* the frame of the tests' test_debug
DebugFrame == [command |-> "DEBUG", info |-> "foo"]

\* success replies and the DEBUG frame
DebugFrames ==
    {[command |-> "RX_LOAD_PIN_MODES", job |-> j] : j \in Jobs(PoolSize)}
      \cup {DebugFrame}

\* submit() and process_errors() against both loops, the device sending
\* success replies and DEBUG frames
NextDebug ==
    \/ SubmitPop("LOAD_PIN_MODES")
    \/ SubmitLock
    \/ SubmitAppend
    \/ SubmitPut
    \/ \E abort \in BOOLEAN : ProcessErrors(abort)
    \/ MessageThread
    \/ CommandThread
    \/ DevicePut(DebugFrames, MaxFrames)

SpecDebug == Init /\ [][NextDebug]_vars

\* a success reply and a frame without the command field, which ends the
\* receive loop
FatalFrames ==
    {[command |-> "RX_LOAD_PIN_MODES", job |-> j] : j \in Jobs(PoolSize)}
      \cup {[cmd |-> "RX_UNKNOWN"]}

\* submit(), process_errors() and kill() against both loops, each of which
\* may end on an exception: the receive loop on a frame without the command
\* field, the send loop on a failing write
NextLink ==
    \/ (queue = <<>> \/ Len(cmds) < MaxStopCmds) /\ SubmitPop("LOAD_PIN_MODES")
    \/ SubmitLock
    \/ SubmitAppend
    \/ SubmitPut
    \/ \E abort \in BOOLEAN : ProcessErrors(abort)
    \/ KillSet
    \/ KillClose
    \/ MessageThread
    \/ CommandThread
    \/ CmdWriteError
    \/ DevicePut(FatalFrames, MaxStopFrames)

\* both daemon threads are scheduled, and the caller does not stop inside a
\* call; the caller need not call anything
SpecLink ==
    /\ Init
    /\ [][NextLink]_vars
    /\ WF_vars(MessageThread)
    /\ WF_vars(CommandThread)
    /\ WF_vars(Returning)

(***************************************************************************)
(* Commands of both classes and every reply that resolves a Future: the    *)
(* level of an input, the samples of a recording, and the error reply      *)
(* that either class accepts.                                              *)
(***************************************************************************)
FutureFrames ==
    GetInputReplies(seqno, Jobs(PoolSize))
      \cup LogSignalReplies(seqno, Jobs(PoolSize))
      \cup Replies({"ERR_COMMAND_INVALID"}, Jobs(PoolSize))

NextFutures ==
    \/ \E kind \in {"GET_INPUT", "LOG_SIGNAL"} :
          (queue = <<>> \/ Len(cmds) < MaxLogCmds) /\ SubmitPop(kind)
    \/ SubmitLock
    \/ SubmitAppend
    \/ SubmitPut
    \/ MessageThread
    \/ CommandThread
    \/ DevicePut(FutureFrames, MaxFrames)

SpecFutures == Init /\ [][NextFutures]_vars

\* the replies to GET_INPUT and to open(), for any job id, and a GET_INPUT
\* reply without the field level, on which update raises
LockFrames ==
    GetInputReplies(seqno, Jobs(PoolSize))
      \cup Replies({"RX_GET_INPUT", "RX_READY"}, Jobs(PoolSize))

\* submit() and open() against both loops
NextLocks ==
    \/ (queue = <<>> \/ Len(cmds) < MaxStopCmds) /\ SubmitPop("GET_INPUT")
    \/ SubmitLock
    \/ SubmitAppend
    \/ SubmitPut
    \/ (queue = <<>> \/ Len(cmds) < MaxStopCmds) /\ OpenPop
    \/ OpenLock
    \/ OpenAppend
    \/ MessageThread
    \/ CommandThread
    \/ DevicePut(LockFrames, MaxStopFrames)

\* both daemon threads are scheduled, and the caller does not stop inside a
\* call
SpecLocks ==
    /\ Init
    /\ [][NextLocks]_vars
    /\ WF_vars(MessageThread)
    /\ WF_vars(CommandThread)
    /\ WF_vars(Returning)
    /\ WF_vars(OpenLock \/ OpenAppend)

\* the replies to open() and to GET_INPUT for the ids of the larger pool
FifoFrames ==
    Replies({"RX_READY"}, Jobs(PairSize))
      \cup GetInputReplies(seqno, Jobs(PairSize))

\* open() and submit() of GET_INPUT commands with the larger pool, the
\* caller creating more commands than the pool has ids
NextFifo ==
    \/ SubmitPopUpTo("GET_INPUT", MaxFifoCmds)
    \/ SubmitLock
    \/ SubmitAppend
    \/ SubmitPut
    \/ OpenPop
    \/ OpenLock
    \/ OpenAppend
    \/ MessageThread
    \/ CommandThread
    \/ DevicePut(FifoFrames, MaxStopFrames)

SpecFifo == Start(PairSize) /\ [][NextFifo]_vars

\* the same as NextFlawed, the bytes arriving at the port in pieces of any
\* length
NextReads ==
    \/ (queue = <<>> \/ Len(cmds) < MaxStopCmds) /\ SubmitPop("GET_INPUT")
    \/ SubmitLock
    \/ SubmitAppend
    \/ SubmitPut
    \/ MessageThread
    \/ InWaitingPartial
    \/ CommandThread
    \/ DevicePut(GetInputReplies(seqno, Jobs(PoolSize)), MaxFrames)
    \/ DevicePutFlawed(GetInputReplies(seqno, Jobs(PoolSize)), MaxFrames)

SpecReads == Init /\ [][NextReads]_vars

\* submit() of GET_INPUT and LOG_SIGNAL commands against both loops and a
\* device that answers every command it is sent
NextAnswer ==
    \/ \E kind \in {"GET_INPUT", "LOG_SIGNAL"} : SubmitPop(kind)
    \/ SubmitLock
    \/ SubmitAppend
    \/ SubmitPut
    \/ MessageThread
    \/ CommandThread
    \/ DeviceAnswer
    \/ DeviceSample(MaxStopFrames)

\* the three threads are scheduled fairly, and the device does not
\* withhold the reply that ends an answer
SpecAnswer ==
    /\ Init
    /\ [][NextAnswer]_vars
    /\ WF_vars(MessageThread)
    /\ WF_vars(CommandThread)
    /\ WF_vars(Returning)
    /\ WF_vars(DeviceAnswer)

(***************************************************************************)
(* Properties.                                                             *)
(***************************************************************************)
Registered == {pending[i] : i \in 1..Len(pending)}

\* C1: in every reachable state no two commands in the pending table hold
\* the same job id value, under any interleaving of submit() and open()
\* with the receive loop's Id.destroy and removal from the table.
C1_UniqueJobIds ==
    \A i, j \in 1..Len(pending) :
        i # j => cmds[pending[i]].job # cmds[pending[j]].job

\* the receive loop has released the id of a completed command that is
\* still in the table, and the caller has already been issued that id for
\* a new command
C1_Witness ==
    /\ pc["rx"] = "del"
    /\ cur # 0
    /\ cur \notin Registered
    /\ cmds[cur].job = cmds[pending[index]].job

\* C2: a GET_INPUT command's Future resolves with the level carried by a
\* reply that bears the command's own job id, whatever the order in which
\* the replies to outstanding commands arrive; it never takes the value of
\* a reply for another job id (the level of a frame is unique to it).
C2_MatchedByJobId ==
    \A c \in 1..Len(cmds) :
        (cmds[c].kind = "GET_INPUT" /\ done(cmds[c].future[1])) =>
            /\ cmds[c].future[1].error = None
            /\ \E k \in 1..Len(wire) :
                 /\ wire[k].job = cmds[c].job
                 /\ cmds[c].future[1].result = Value(wire[k].level)

\* two commands were outstanding together, the reply to the second came
\* first, and each Future has the level of its own reply
C2_Witness ==
    /\ Len(cmds) >= 2
    /\ Len(wire) >= 2
    /\ wire[1].job = cmds[2].job
    /\ wire[2].job = cmds[1].job
    /\ cmds[1].job # cmds[2].job
    /\ cmds[2].future[1].result = Value(wire[1].level)
    /\ cmds[1].future[1].result = Value(wire[2].level)

\* C3: with the id pool exhausted, submit() never blocks and any call
\* raises the capacity error and changes nothing else: nothing is added
\* to the pending table or to the command queue, and the pool and the
\* commands are as before.
C3_ExhaustedSubmitFails ==
    /\ [](\A kind \in SubmitKinds :
            (pc["caller"] = "idle" /\ queue = <<>>) => ENABLED SubmitPop(kind))
    /\ [][\A kind \in SubmitKinds :
            (queue = <<>> /\ SubmitPop(kind)) =>
                /\ raised' = RuntimeError
                /\ UNCHANGED <<queue, cmds, pending, pending_lock, cmd_queue,
                               error_queue, written, cur, pc>>]_vars

\* the submit that failed was made while every id of the pool was held by
\* a pending command
C3_Witness ==
    /\ raised = RuntimeError
    /\ queue = <<>>
    /\ Len(pending) = PoolSize
    /\ cmd_queue # <<>>

\* a Future resolved with the protocol error that carries the reply
ErrorFuture(reply) ==
    set_error(Future, ControllinoError("controllino error", reply))

\* a Future resolved with a result
ResultFuture(result) == set_result(Future, result)

Range(s) == {s[i] : i \in 1..Len(s)}

\* command c has been completed: it is out of the pending table, or the
\* receive loop is taking it out
Removed(c) ==
    \/ c \notin Registered
    \/ pc["rx"] \in {"destroy", "del"} /\ pending[index] = c

\* the job id of the completed command c is back in the pool, or has been
\* issued again since
Released(c) ==
    \/ pc["rx"] = "destroy" /\ pending[index] = c
    \/ cmds[c].job \in Range(queue)
    \/ \E d \in (c + 1)..Len(cmds) : cmds[d].job = cmds[c].job

\* the receive loop takes the step that updates a pending command with
\* the reply at the head of its replies
Updating == pc["rx"] = "update" /\ pc'["rx"] # "update" /\ IndexOf(Head(replies).job) # 0

Target == pending[IndexOf(Head(replies).job)]

\* C4: an error reply (ERR_ + the request name, or ERR_COMMAND_INVALID)
\* that bears the job id of a pending command resolves the command's
\* Future with a protocol error carrying the reply, puts nothing on the
\* error channel and completes the command: it is removed from the pending
\* table and its id is released.  Neither loop terminates.
C4_ErrorReplyCompletes ==
    /\ [](/\ pc["rx"] # "done"
          /\ pc["tx"] # "done"
          /\ \A c \in 1..Len(cmds) :
               cmds[c].future[1].error # None => Removed(c) /\ Released(c))
    /\ [][(/\ Updating
           /\ Head(replies).command \in
                {"ERR_" \o cmds[Target].kind, "ERR_COMMAND_INVALID"}) =>
              /\ cmds'[Target].future[1] = ErrorFuture(Head(replies))
              /\ error_queue' = error_queue
              /\ pc'["rx"] = "destroy"]_vars

\* a command was completed by ERR_COMMAND_INVALID, and a reply that came
\* later resolved the next command
C4_Witness ==
    /\ Len(cmds) >= 2
    /\ cmds[1].future[1].error # None
    /\ cmds[1].future[1].error.reply.command = "ERR_COMMAND_INVALID"
    /\ 1 \notin Registered
    /\ cmds[2].future[1] = ResultFuture(None)
    /\ error_queue = <<>>

\* number of frames sent that the receive loop has not handed to _receive
IsJson(sym) == sym.b = "json"

InFlight ==
    Len(SelectSeq(ser_in \o buffer, IsJson)) + Len(replies)
        - (IF pc["rx"] \in {"destroy", "del"} THEN 1 ELSE 0)

Last(s) == s[Len(s)]

\* C5: for a LOG_SIGNAL command that gets success frames only: the request
\* Future resolves on the first frame; the recording Future is unresolved
\* while every frame received has done = false and is resolved once the
\* frame with done = true is processed; its result holds the sample of
\* every frame received for the command, the first included, in the order
\* of arrival, none twice and none dropped; the command stays in the
\* pending table until that frame.
C5_LogSignalStream ==
    /\ \A c \in 1..Len(cmds) :
         LET cmd == cmds[c] IN
         /\ done(cmd.future[1]) <=> cmd.time # <<>>
         /\ done(cmd.future[1]) => cmd.future[1] = ResultFuture(None)
         /\ Len(cmd.values) = Len(cmd.time)
         /\ \A i \in 1..Len(cmd.time) :
              /\ cmd.time[i] \in 1..Len(wire)
              /\ wire[cmd.time[i]].job = cmd.job
              /\ cmd.values[i] = wire[cmd.time[i]].value
              /\ i < Len(cmd.time) => ~wire[cmd.time[i]].done
              /\ \A j \in (i + 1)..Len(cmd.time) : cmd.time[i] < cmd.time[j]
         /\ done(cmd.future[2]) <=> (cmd.time # <<>> /\ wire[Last(cmd.time)].done)
         /\ done(cmd.future[2]) =>
              cmd.future[2] = ResultFuture(TimeSeries(cmd.time, cmd.values))
         /\ ~done(cmd.future[2]) =>
              \/ c \in Registered
              \/ c = cur /\ pc["caller"] \in {"submit_lock", "submit_append"}
         /\ \A d \in 1..Len(cmds) :
              c # d => Range(cmd.time) \cap Range(cmds[d].time) = {}
    /\ \A k \in 1..(Len(wire) - InFlight) :
         \/ \E c \in 1..Len(cmds) : k \in Range(cmds[c].time)
         \/ \E i \in 1..Len(error_queue) :
              error_queue[i] = ControllinoError("invalid job id", wire[k])

\* a recording of three frames is complete, and before its last frame the
\* recording Future was unresolved
C5_Witness ==
    /\ Len(cmds) >= 1
    /\ Len(cmds[1].time) >= 3
    /\ done(cmds[1].future[2])
    /\ 1 \notin Registered

\* C6: when the first reply to a LOG_SIGNAL command is an error reply, the
\* request Future resolves with that error and the command is completed at
\* once; the recording Future is not resolved then, nor by any reply that
\* comes later.
C6_DeclinedRequest ==
    /\ [](\A c \in 1..Len(cmds) :
            cmds[c].future[1].error # None =>
              /\ \E k \in 1..Len(wire) :
                   /\ wire[k].job = cmds[c].job
                   /\ wire[k].command = "ERR_LOG_SIGNAL"
                   /\ cmds[c].future[1] = ErrorFuture(wire[k])
              /\ cmds[c].future[2] = Future
              /\ cmds[c].time = <<>>
              /\ Removed(c)
              /\ Released(c))
    /\ [][(/\ Updating
           /\ ~done(cmds[Target].future[1])
           /\ Head(replies).command = "ERR_LOG_SIGNAL") =>
              /\ cmds'[Target].future[1] = ErrorFuture(Head(replies))
              /\ cmds'[Target].future[2] = Future
              /\ pc'["rx"] = "destroy"]_vars

\* the request was declined by the first frame, and the receive loop has
\* since processed another frame with the same job id
C6_Witness ==
    /\ Len(cmds) >= 1
    /\ Len(wire) >= 2
    /\ cmds[1].future[1] = ErrorFuture(wire[1])
    /\ wire[2].job = cmds[1].job
    /\ InFlight = 0
    /\ pc["rx"] \notin {"update", "destroy", "del"}

\* C7: when a LOG_SIGNAL command was accepted and a later reply for its
\* job is an error reply, the recording Future resolves with that error,
\* the request Future keeps its successful resolution and the command is
\* completed.
C7_StreamError ==
    /\ [](\A c \in 1..Len(cmds) :
            cmds[c].future[2].error # None =>
              /\ cmds[c].future[1] = ResultFuture(None)
              /\ \E k \in 1..Len(wire) :
                   /\ wire[k].job = cmds[c].job
                   /\ wire[k].command = "ERR_LOG_SIGNAL"
                   /\ cmds[c].future[2] = ErrorFuture(wire[k])
              /\ Removed(c)
              /\ Released(c))
    /\ [][(/\ Updating
           /\ cmds[Target].future[1] = ResultFuture(None)
           /\ Head(replies).command = "ERR_LOG_SIGNAL") =>
              /\ cmds'[Target].future[2] = ErrorFuture(Head(replies))
              /\ cmds'[Target].future[1] = ResultFuture(None)
              /\ pc'["rx"] = "destroy"]_vars

\* the stream of an accepted command has failed and the command is gone
C7_Witness ==
    /\ Len(cmds) >= 1
    /\ cmds[1].future[1] = ResultFuture(None)
    /\ cmds[1].future[2].error # None
    /\ cmds[1].time # <<>>
    /\ 1 \notin Registered

\* the commands handed to the send loop, oldest first: written, being
\* written, queued
Handed ==
    [i \in 1..Len(written) |-> written[i].cmd]
        \o (IF tx_cmd = 0 THEN <<>> ELSE <<tx_cmd>>)
        \o cmd_queue

\* C8: the send loop writes the submitted commands in the order of their
\* submission (commands are numbered in that order), each at most once and
\* none is lost on the way; a command that is queued is eventually written
\* when the send loop keeps running.
C8_FifoWrites ==
    /\ [](/\ \A i, j \in 1..Len(Handed) : i < j => Handed[i] < Handed[j]
          /\ Range(Handed) = (1..Len(cmds)) \ {cur}
          /\ \A i \in 1..Len(written) :
               written[i].data = encode([command |-> cmds[written[i].cmd].kind,
                                         job |-> cmds[written[i].cmd].job]))
    /\ \A c \in 1..MaxCmds :
         (c \in Range(cmd_queue)) ~> (\E i \in 1..Len(written) : written[i].cmd = c)

\* two commands have been written, the first submitted first
C8_Witness ==
    /\ Len(written) >= 2
    /\ written[1].cmd = 1
    /\ written[2].cmd = 2

\* C9: open() takes a job id and registers a READY command in the pending
\* table without queueing it: it is never handed to the send loop and
\* nothing is written for it.  Its Future is resolved with success only by
\* a reply RX_READY with its job id, and the reply completes the command:
\* it is removed and its id released.
C9_OpenNotSent ==
    /\ [](\A c \in 1..Len(cmds) :
            cmds[c].kind = READY =>
              /\ c \notin Range(Handed)
              /\ \A i \in 1..Len(written) :
                   written[i].data[1].obj.command # READY
              /\ (c # cur) => (c \in Registered \/ done(cmds[c].future[1]))
              /\ (done(cmds[c].future[1]) /\ cmds[c].future[1].error = None) =>
                   /\ cmds[c].future[1] = ResultFuture(None)
                   /\ \E k \in 1..Len(wire) :
                        wire[k] = [command |-> "RX_READY", job |-> cmds[c].job]
                   /\ Removed(c)
                   /\ Released(c))
    /\ [][(Updating /\ cmds[Target].kind = READY) =>
              IF Head(replies).command = "RX_READY"
              THEN /\ cmds'[Target].future[1] = ResultFuture(None)
                   /\ pc'["rx"] = "destroy"
              ELSE /\ cmds' = cmds
                   /\ pc'["rx"] = "receive"]_vars

\* open() was answered by RX_READY: the Future is resolved, the command is
\* gone, its id is free again and nothing was written
C9_Witness ==
    /\ Len(cmds) >= 1
    /\ cmds[1].kind = READY
    /\ cmds[1].future[1] = ResultFuture(None)
    /\ 1 \notin Registered
    /\ cmds[1].job \in Range(queue)
    /\ written = <<>>
    /\ cmd_queue = <<>>

\* C10: process_errors(abort) never blocks.  With the error channel empty
\* it returns without raising and leaves the stop signal alone, whatever
\* abort is.  Otherwise it removes the oldest error and no other, raises it
\* and sets the stop signal iff abort is true.
C10_ProcessErrors ==
    /\ [](pc["caller"] = "idle" =>
            \A abort \in BOOLEAN : ENABLED ProcessErrors(abort))
    /\ [][\A abort \in BOOLEAN :
            ProcessErrors(abort) =>
              IF error_queue = <<>>
              THEN /\ raised' = None
                   /\ error_queue' = <<>>
                   /\ stop_event' = stop_event
              ELSE /\ raised' = Head(error_queue)
                   /\ error_queue' = Tail(error_queue)
                   /\ abort => stop_event'
                   /\ ~abort => (stop_event' = stop_event)]_vars

\* the first of two queued errors was raised with abort set: the second is
\* still queued and the stop signal is set
C10_Witness ==
    /\ Len(wire) >= 2
    /\ raised = ControllinoError("received error msg", wire[1])
    /\ Len(error_queue) = 1
    /\ error_queue[1] = ControllinoError("out-of-turn reply", wire[2])
    /\ stop_event

\* C11: once the stop event is set (by kill() or by process_errors(abort =
\* True)), each loop that comes to its loop condition leaves the loop there,
\* both loops eventually terminate, and every kill() call closes the serial
\* device exactly once.
C11_StopTerminates ==
    /\ [](closed = IF pc["caller"] = "kill_close" THEN kills - 1 ELSE kills)
    /\ [][\A t \in {"rx", "tx"} :
            (stop_event /\ pc[t] = "loop" /\ pc'[t] # "loop") => pc'[t] = "done"]_vars
    /\ stop_event ~> (pc["rx"] = "done" /\ pc["tx"] = "done")

C11_Witness ==
    /\ kills = 1
    /\ closed = 1
    /\ stop_event
    /\ pc["rx"] = "done"
    /\ pc["tx"] = "done"
    /\ pending # <<>>

\* C12: once kill() has returned or process_errors(abort = True) has raised
\* (the stop event is set and no kill() is in progress), a Future that is
\* not resolved stays unresolved in every later step.
C12_StaysUnresolved ==
    [][(stop_event /\ pc["caller"] # "kill_close") =>
         \A c \in 1..Len(cmds) : \A k \in 1..Len(cmds[c].future) :
            ~done(cmds[c].future[k]) => ~done(cmds'[c].future[k])]_vars

\* the receive loop is done with the reply at the head of replies in this
\* step: _receive returns or raises
Handles ==
    /\ pc["rx"] \in {"receive", "update"}
    /\ replies # <<>>
    /\ replies' # replies

Unknown(reply) ==
    /\ Has(reply, "command")
    /\ Has(reply, "job")
    /\ \A i \in 1..Len(pending) : cmds[pending[i]].job # reply.job

Unsolicited(reply) ==
    /\ Has(reply, "command")
    /\ ~Has(reply, "job") \/ Unknown(reply)

\* C14: the receive loop exits in the step in which it reports an
\* unsolicited protocol error (a general error without a job id, a non-error
\* reply without a job id, a reply for an unknown job id), and while such an
\* error is on the error channel no Future changes.
C14_UnsolicitedFatal ==
    /\ [][(Handles /\ Unsolicited(Head(replies))) => pc'["rx"] = "done"]_vars
    /\ [][(\E i \in 1..Len(error_queue) : error_queue[i].tag = "ControllinoError")
            => cmds' = cmds]_vars

IsFlawed(w) == Has(w, "flawed")

\* the number of bytes of the k-th frame of the wire
Size(k) ==
    IF IsFlawed(wire[k])
    THEN IF wire[k].flawed = None
         THEN Len(Junk \o DELIM)
         ELSE Len(Junk \o encode(wire[k].flawed))
    ELSE Len(encode(wire[k]))

RECURSIVE Sent(_)
Sent(k) == IF k = 0 THEN 0 ELSE Sent(k - 1) + Size(k)

\* the receive loop has read the k-th frame of the wire
HasRead(k) == Sent(k) <= Sent(Len(wire)) - Len(ser_in)

DecodeErrors == SelectSeq(error_queue, LAMBDA e : e = JSONDecodeError)

OnlyPrefixed(k) ==
    /\ IsFlawed(wire[k])
    /\ wire[k].flawed # None
    /\ \A i \in 1..Len(wire) : i # k => ~IsFlawed(wire[i])

\* the receive loop is not in the middle of the replies it has read
Settled ==
    /\ replies = <<>>
    /\ pc["rx"] \notin {"receive", "update", "destroy", "del"}

\* the reply was handed to the command with its job id, which resolved with
\* the level the reply carries, or nobody waited for that job id
Dispatched(reply) ==
    \/ \E c \in 1..Len(cmds) :
          /\ cmds[c].job = reply.job
          /\ cmds[c].future[1] = set_result(Future, Value(reply.level))
    \/ \E i \in 1..Len(error_queue) :
          error_queue[i] = ControllinoError("invalid job id", reply)

\* a command with the job id of the reply is in the pending table
Awaited(reply) ==
    \E i \in 1..Len(pending) : cmds[pending[i]].job = reply.job

\* C16: after one reply frame behind an extraneous byte, every well-formed
\* frame sent after it that the receive loop was given to read has been
\* decoded and dispatched once the loop has settled, and the receive buffer
\* is empty again; here for a frame whose job id a command is waiting for.
C16_Recovers ==
    \A k \in 1..Len(wire) : \A j \in 1..Len(wire) :
        (k < j /\ OnlyPrefixed(k) /\ HasRead(j) /\ Settled /\ Awaited(wire[j])) =>
            /\ Dispatched(wire[j])
            /\ buffer = <<>>

\* C17: a success reply behind one extraneous byte, once the receive loop
\* has read it and settled, has resolved the Future of the command with its
\* job id with the value it carries, and the error channel holds no decode
\* error.
C17_PrefixTolerated ==
    \A k \in 1..Len(wire) :
        (OnlyPrefixed(k) /\ HasRead(k) /\ Settled /\ Awaited(wire[k].flawed)) =>
            /\ Dispatched(wire[k].flawed)
            /\ DecodeErrors = <<>>

\* C18: when the receive loop handles a DEBUG frame without a job id it puts
\* nothing on the error channel and keeps running, and while the device has
\* sent nothing but DEBUG frames process_errors() returns without raising.
C18_DebugNotAnError ==
    /\ [][(Handles /\ Head(replies) = DebugFrame) =>
            /\ error_queue' = error_queue
            /\ pc'["rx"] # "done"]_vars
    /\ [][\A abort \in BOOLEAN :
            (ProcessErrors(abort) /\ \A k \in 1..Len(wire) : wire[k] = DebugFrame)
              => raised' = None]_vars

\* C19 as stated: once one loop has ended while the stop event is clear (so
\* on an exception), the other loop eventually ends too.
C19_LoopsLinked ==
    /\ (pc["rx"] = "done" /\ ~stop_event) ~> (pc["tx"] = "done")
    /\ (pc["tx"] = "done" /\ ~stop_event) ~> (pc["rx"] = "done")

\* C19, amended: the loops are not linked.  A loop ends only at its loop
\* condition with the stop event set (by kill() or by process_errors(abort =
\* True)) or on an exception of its own, which it reports; the end of one
\* loop never ends the other.
C19_StopOnlyBySignal ==
    [][\A t \in {"rx", "tx"} :
         (pc[t] # "done" /\ pc'[t] = "done") =>
            \/ stop_event /\ pc[t] = "loop"
            \/ /\ Len(error_queue') = Len(error_queue) + 1
               /\ error_queue'[Len(error_queue')].tag
                    \in {"KeyError", "JSONDecodeError", "SerialException"}]_vars

\* the receive loop has ended on an exception, nothing has set the stop
\* event, and the send loop has taken a command from the queue since
C19_Witness ==
    /\ pc["rx"] = "done"
    /\ error_queue = <<KeyError("command")>>
    /\ ~stop_event
    /\ kills = 0
    /\ pc["tx"] = "write"
(***************************************************************************)
(* Futures are assigned once.                                              *)
(***************************************************************************)
\* what done(), wait() and result() show of a Future: whether it is
\* resolved, and the value result() returns or the error it raises
Observed(fut) ==
    [done |-> done(fut),
     result |-> IF fut.error # None THEN fut.error ELSE fut.result,
     raises |-> fut.error # None]

\* C20: every Future is resolved at most once: set_result and set_error
\* together are called at most once on it, it is done exactly when one of
\* them was called, it never holds both a result and an error, and once it
\* is done what done(), wait() and result() show of it never changes
C20_SingleAssignment ==
    /\ [](\A c \in 1..Len(cmds) : \A k \in 1..Len(cmds[c].future) :
            LET fut == cmds[c].future[k]
            IN  /\ fut.sets <= 1
                /\ done(fut) <=> fut.sets = 1
                /\ fut.result = None \/ fut.error = None
                /\ ~done(fut) => fut.result = None /\ fut.error = None)
    /\ [][\A c \in 1..Len(cmds) : \A k \in 1..Len(cmds[c].future) :
            done(cmds[c].future[k]) =>
              /\ c <= Len(cmds')
              /\ k <= Len(cmds'[c].future)
              /\ Observed(cmds'[c].future[k]) = Observed(cmds[c].future[k])]_vars

\* the request Future of a recording is resolved by the first sample, a
\* second reply for the recording has been handled and has resolved the
\* recording Future, and each of the two was set once
C20_Witness ==
    \E c \in 1..Len(cmds) :
          /\ cmds[c].kind = "LOG_SIGNAL"
          /\ Len(cmds[c].time) = 2
          /\ cmds[c].future[1].sets = 1
          /\ cmds[c].future[2].sets = 1
          /\ done(cmds[c].future[1])
          /\ done(cmds[c].future[2])

(***************************************************************************)
(* The serial lock.                                                        *)
(***************************************************************************)
\* C21: every access to the serial device happens while the accessing
\* thread holds the serial lock: the receive loop's bytes-available check
\* and read, the send loop's write and kill()'s close
C21_SerialGuarded ==
    [][/\ (InWaiting \/ Read) => serial_lock = "rx"
       /\ written' # written => serial_lock = "tx"
       /\ closed' # closed => serial_lock = "caller"]_vars

(***************************************************************************)
(* The pending lock.                                                       *)
(***************************************************************************)
\* the places at which a thread is inside "with self._pending_lock"
InPendingLock(t) ==
    CASE t = "caller" -> pc[t] \in {"submit_append", "open_append"}
      [] t = "rx" -> pc[t] \in {"update", "destroy", "del"}
      [] OTHER -> FALSE

\* C22: the pending table is read and changed only by the thread that holds
\* the pending lock; the lock is held exactly by a thread that is inside
\* its with block, so it is free again when update has raised and the
\* receive loop has ended; and whoever holds the lock releases it
C22_PendingGuarded ==
    /\ [](\A t \in Threads : pending_lock = t <=> InPendingLock(t))
    /\ [][/\ (SubmitAppend \/ OpenAppend) => pending_lock = "caller"
          /\ (ReceiveUpdate \/ ReceiveDestroy \/ ReceiveDel) => pending_lock = "rx"
          /\ pending' # pending =>
               \/ SubmitAppend
               \/ OpenAppend
               \/ ReceiveDel]_vars
    /\ \A t \in Threads : (pending_lock = t) ~> (pending_lock # t)

\* update has raised inside the with block: the receive loop has ended on a
\* KeyError, the command is still in the table and the lock is free
C22_Witness ==
    /\ pc["rx"] = "done"
    /\ error_queue # <<>>
    /\ error_queue[Len(error_queue)] = KeyError("level")
    /\ pending # <<>>
    /\ pending_lock = "free"

(***************************************************************************)
(* Success replies.                                                        *)
(***************************************************************************)
\* C23: a Future of a command is resolved with success only while the
\* receive loop handles a reply that carries the command's job id and whose
\* command field is "RX_" followed by the command's own request name
C23_SuccessOnlyByOwnReply ==
    [][\A c \in 1..Len(cmds) : \A k \in 1..Len(cmds[c].future) :
          (/\ ~done(cmds[c].future[k])
           /\ done(cmds'[c].future[k])
           /\ cmds'[c].future[k].error = None) =>
             /\ replies # <<>>
             /\ Head(replies).job = cmds[c].job
             /\ Head(replies).command = RX \o serialize(cmds[c]).command]_vars

(***************************************************************************)
(* The id pool is a FIFO.                                                  *)
(***************************************************************************)
\* the jobs of the commands created so far, in the order of their creation
Issued == [c \in 1..Len(cmds) |-> cmds[c].job]

\* C24: a fresh pool issues 0, 1, 2, ... in order; pop takes the id at the
\* front of the free list and a released id is appended at its back, the
\* other ids keeping their order, so a released id is reissued only after
\* the ids that were free when it was released; after open() has taken id 0
\* the next command is created, and written, with job id 1
C24_Fifo ==
    /\ [](Len(cmds) + Len(queue) = PairSize =>
            \A c \in 1..Len(cmds) : Issued[c] = c - 1)
    /\ [](Len(cmds) >= 2 /\ cmds[1].kind = READY =>
            /\ Issued[2] = 1
            /\ \A w \in 1..Len(written) :
                 written[w].cmd = 2 =>
                   written[w].data = encode([command |-> cmds[2].kind, job |-> 1]))
    /\ [][/\ Len(cmds') > Len(cmds) =>
               /\ queue # <<>>
               /\ cmds' = Append(cmds, cmds'[Len(cmds')])
               /\ Issued'[Len(cmds')] = Head(queue)
               /\ queue' = Tail(queue)
          /\ ReceiveDestroy => queue' = Append(queue, cmds[pending[index]].job)
          /\ queue' # queue => Len(cmds') > Len(cmds) \/ ReceiveDestroy]_vars

\* open() took id 0 and the READY reply released it behind id 1; the next
\* two commands got 1 and then 0 again, and the command with id 1 is written
C24_Witness ==
    /\ Len(cmds) = 3
    /\ cmds[1].kind = READY
    /\ done(cmds[1].future[1])
    /\ Issued = <<0, 1, 0>>
    /\ \E w \in 1..Len(written) : written[w].cmd = 2

(***************************************************************************)
(* Registered before written.                                              *)
(***************************************************************************)
\* the command has been inserted into the pending table: it is in the
\* table, or it has left the table, which only a command with a resolved
\* Future does
Inserted(c) ==
    \/ c \in Registered
    \/ \E k \in 1..Len(cmds[c].future) : done(cmds[c].future[k])

\* C25: a command that the send loop writes, or is about to write, has
\* been inserted into the pending table before; when the receive loop
\* finds no pending command for the job id of a reply, every written
\* command with that job id has completed already
C25_RegisteredBeforeWritten ==
    /\ [](\A c \in Range(Handed) : Inserted(c))
    /\ [][written' # written =>
            /\ Len(written') = Len(written) + 1
            /\ Inserted(written'[Len(written')].cmd)]_vars
    /\ [](pc["rx"] = "update" /\ IndexOf(Head(replies).job) = 0 =>
            \A c \in Range(Handed) :
               cmds[c].job = Head(replies).job => done(cmds[c].future[1]))

\* the receive loop has found the pending command of a reply that answers
\* a written command
C25_Witness ==
    /\ pc["rx"] = "update"
    /\ IndexOf(Head(replies).job) # 0
    /\ \E w \in 1..Len(written) :
         /\ written[w].cmd = pending[IndexOf(Head(replies).job)]
         /\ ~done(cmds[written[w].cmd].future[1])

(***************************************************************************)
(* Conservation of ids.                                                    *)
(***************************************************************************)
\* the commands that hold an id: those in the pending table and the one
\* that submit() or open() has given an id and not appended yet
Holding ==
    Registered \cup (IF pc["caller"] \in {"submit_lock", "open_lock"}
                     THEN {cur} ELSE {})

\* how often the id is in the free list, and how many commands hold it
Free(id) == Cardinality({i \in 1..Len(queue) : queue[i] = id})

Holders(id) == Cardinality({c \in Holding : cmds[c].job = id})

\* C26: whenever the pending lock is free, every id of the pool is either
\* once in the free list or held by one command that has its id and has
\* not completed; the free list holds no id twice and at most as many
\* commands are pending as the pool has ids
C26_IdConservation ==
    pending_lock = "free" =>
      /\ \A id \in Jobs(PairSize) : Free(id) + Holders(id) = 1
      /\ \A i \in 1..Len(queue) : queue[i] \in Jobs(PairSize)
      /\ \A c \in Holding : cmds[c].job \in Jobs(PairSize)
      /\ Len(pending) <= PairSize
      /\ Cardinality(Registered) = Len(pending)

\* the pool is used up after an id was released and issued again: one
\* command is pending, one has its id and is not appended yet
C26_Witness ==
    /\ pending_lock = "free"
    /\ Len(cmds) = PairSize + 1
    /\ queue = <<>>
    /\ pc["caller"] = "submit_lock"
    /\ Len(pending) = PairSize - 1

(***************************************************************************)
(* Replies with the job id of a command and the name of another.           *)
(***************************************************************************)
\* the reply is neither the success reply nor an error reply of the command
Foreign(cmd, reply) ==
    reply.command \notin {RX \o serialize(cmd).command,
                          ERR \o serialize(cmd).command,
                          "ERR_COMMAND_INVALID"}

\* C27: when the receive loop handles a reply that carries the job id of a
\* pending command that does not stream and a command field that is
\* neither the success nor an error reply of that command, nothing
\* changes: the Future stays unresolved, the command stays in the pending
\* table with its id, nothing is reported and the receive loop goes on
\* with the next reply
C27_ForeignReplyIgnored ==
    [][(/\ ReceiveUpdate
        /\ IndexOf(Head(replies).job) # 0
        /\ cmds[pending[IndexOf(Head(replies).job)]].kind # "LOG_SIGNAL"
        /\ Foreign(cmds[pending[IndexOf(Head(replies).job)]], Head(replies))) =>
          /\ UNCHANGED <<cmds, pending, queue, error_queue>>
          /\ pending_lock' = "free"
          /\ replies' = Tail(replies)
          /\ pc'["rx"] = "receive"]_vars

\* an RX_READY reply with the job id of a pending GET_INPUT command has
\* been handled
C27_Witness ==
    /\ Len(wire) = 1
    /\ ser_in = <<>>
    /\ pc["rx"] = "receive"
    /\ replies = <<>>
    /\ pending = <<1>>
    /\ cmds[1].kind = "GET_INPUT"
    /\ wire[1] = [command |-> "RX_READY", job |-> cmds[1].job]
    /\ ~done(cmds[1].future[1])
    /\ error_queue = <<>>

(***************************************************************************)
(* The two locks together.                                                 *)
(***************************************************************************)
\* the steps of a call of the caller that has begun
InCall == SubmitLock \/ SubmitAppend \/ SubmitPut \/ OpenLock \/ OpenAppend

\* C28: no thread holds the serial lock and the pending lock together; as
\* long as the stop event is not set and both loops run, some thread can
\* take a step, and a thread that cannot is waiting for a lock whose holder
\* can
C28_NoDeadlock ==
    /\ \A t \in Threads : ~(serial_lock = t /\ pending_lock = t)
    /\ (~stop_event /\ pc["rx"] # "done" /\ pc["tx"] # "done") =>
         /\ ENABLED (MessageThread \/ CommandThread \/ InCall)
         /\ ENABLED CommandThread
         /\ ~ENABLED MessageThread =>
              pending_lock = "caller" /\ ENABLED InCall
         /\ (pc["caller"] # "idle" /\ ~ENABLED InCall) =>
              pending_lock = "rx" /\ ENABLED MessageThread

\* the receive loop has a reply with a job id to dispatch and waits for
\* the pending lock, which the caller holds inside submit()
C28_Witness ==
    /\ pc["rx"] = "receive"
    /\ replies # <<>>
    /\ pending_lock = "caller"
    /\ pc["caller"] = "submit_append"
    /\ ~ENABLED MessageThread
    /\ ~stop_event

(***************************************************************************)
(* The division of the byte stream into reads.                             *)
(***************************************************************************)
\* C29: what the receive loop dispatches does not depend on how the bytes
\* are divided into reads: a well-formed frame that no malformed frame
\* precedes is dispatched once the loop has read it and has settled, as it
\* is when every frame is read by itself; also when a read ends inside it
\* or inside its delimiter, and when the same read holds a malformed frame
\* behind it
C29_ReadBoundaryIndependent ==
    \A k \in 1..Len(wire) :
        (/\ \A i \in 1..k : ~IsFlawed(wire[i])
         /\ HasRead(k)
         /\ Settled) =>
            Dispatched(wire[k])

(***************************************************************************)
(* Every answered command completes.                                       *)
(***************************************************************************)
\* every Future of the command is resolved with a result
Succeeded(c) ==
    \A k \in 1..Len(cmds[c].future) :
        done(cmds[c].future[k]) /\ cmds[c].future[k].error = None

\* the receive loop has recycled the id of the command and is about to
\* delete the command: the id is back at the end of the free list
Recycled(c) ==
    /\ pc["rx"] = "del"
    /\ pending[index] = c
    /\ queue # <<>>
    /\ queue[Len(queue)] = cmds[c].job

\* C30: with the stop event clear, both loops running, a device that
\* answers every written command and fair scheduling, every submitted
\* command gets its Futures resolved, its id is returned to the pool and
\* the command is removed from the pending table, for good
C30_Completes ==
    /\ [](~stop_event /\ pc["rx"] # "done" /\ pc["tx"] # "done")
    /\ \A c \in 1..MaxCmds + 1 :
         /\ (c \in Range(cmd_queue)) ~> (c <= Len(cmds) /\ Recycled(c))
         /\ (c \in Range(cmd_queue)) ~>
              [](c <= Len(cmds) /\ Succeeded(c) /\ c \notin Registered)

\* two commands have been submitted one after the other with the only id
\* of the pool, a recording and a read, and both have completed
C30_Witness ==
    /\ Len(cmds) = 2
    /\ cmds[1].kind = "LOG_SIGNAL"
    /\ cmds[2].kind = "GET_INPUT"
    /\ Succeeded(1)
    /\ Succeeded(2)
    /\ Len(cmds[1].time) = 2
    /\ pending = <<>>
    /\ Len(queue) = PoolSize

====
